---------------------------- MODULE Spec2Model ----------------------------
(***************************************************************************)
(* Model of the monallion backend (src/server.js, MongoDB edition, and     *)
(* src/unnamed/part_002, Supabase edition): the winnings ledger with the   *)
(* game-completion and withdraw handlers, and the question store with the  *)
(* upload handler.                                                         *)
(*                                                                         *)
(* Node.js runs one handler segment at a time: the code between two        *)
(* awaits is atomic.  Every action below is one such segment: the          *)
(* completion of the awaited store or chain call together with the         *)
(* synchronous code that follows it up to the next await or the response.  *)
(*                                                                         *)
(* Strings are sequences of one-character strings, so that toLowerCase,    *)
(* toUpperCase, trim and concatenation are computed and not assumed.       *)
(***************************************************************************)
EXTENDS Integers, Sequences, FiniteSets, TLC

\* ------------------------------------------------------------------ bounds
\* Number of HTTP requests to the ledger endpoints (numbered in arrival order).
MaxReqs == 2
\* Number of upload requests, and the number of records they carry in total.
MaxUploads == 2
MaxRecords == 2
\* Number of faucet claim requests, and the last hour of the clock.
MaxClaims == 3
MaxClock == 5
\* Number of read requests (leaderboard, profile, random questions).
MaxQueries == 1

\* ----------------------------------------------------------------- strings
LowerOf == [c \in {"A", "B", "C", "D"} |->
              CASE c = "A" -> "a" [] c = "B" -> "b" [] c = "C" -> "c" [] OTHER -> "d"]

LowerChar(c) == IF c \in DOMAIN LowerOf THEN LowerOf[c] ELSE c

\* String.prototype.toLowerCase
ToLowerCase(s) == [i \in 1..Len(s) |-> LowerChar(s[i])]

UpperOf == [c \in {"a", "b", "c", "d", "e"} |->
              CASE c = "a" -> "A" [] c = "b" -> "B" [] c = "c" -> "C"
                [] c = "d" -> "D" [] OTHER -> "E"]

UpperChar(c) == IF c \in DOMAIN UpperOf THEN UpperOf[c] ELSE c

\* String.prototype.toUpperCase
ToUpperCase(s) == [i \in 1..Len(s) |-> UpperChar(s[i])]

IsSpace(c) == c = " "

\* String.prototype.trim: the string without its leading and trailing white space
Trim(s) ==
  LET solid == {i \in 1..Len(s) : ~IsSpace(s[i])} IN
  IF solid = {} THEN <<>>
  ELSE LET lo == CHOOSE i \in solid : \A j \in solid : i <= j
           hi == CHOOSE i \in solid : \A j \in solid : j <= i
       IN SubSeq(s, lo, hi)

\* Array.prototype.join
RECURSIVE Join(_, _)
Join(strs, sep) ==
  IF Len(strs) = 0 THEN <<>>
  ELSE IF Len(strs) = 1 THEN strs[1]
  ELSE strs[1] \o sep \o Join(Tail(strs), sep)

\* --------------------------------------------------------------- JSON values
\* A JSON value of a request body, by its JavaScript type
Str(x) == [t |-> "string", s |-> x, n |-> 0]
Num(k) == [t |-> "number", s |-> <<>>, n |-> k]
Undefined == [t |-> "undefined", s |-> <<>>, n |-> 0]

\* JavaScript truthiness of a value
Truthy(v) ==
  CASE v.t = "string" -> v.s # <<>>
    [] v.t = "number" -> v.n # 0
    [] OTHER -> FALSE

\* a || b
OrElse(a, b) == IF Truthy(a) THEN a ELSE b

\* An element of q.answers: an object {id, text}, or null
Answer(id, text) == [obj |-> TRUE, id |-> id, text |-> text]
NullAnswer == [obj |-> FALSE, id |-> Undefined, text |-> Undefined]

\* An array property (answers, tags), or a value that is no array
Arr(items) == [array |-> TRUE, items |-> items]
NoArr == [array |-> FALSE, items |-> <<>>]

\* --------------------------------------------------- question helper functions
\* Variant of questionHash that feeds the answer ids to the digest as well
questionHashWithIds(q) ==
  OrElse(q.question, Str(<<>>)).s
    \o Join([i \in 1..Len(q.answers.items) |->
               OrElse(q.answers.items[i].id, Str(<<>>)).s
                 \o OrElse(q.answers.items[i].text, Str(<<>>)).s], <<"|">>)
    \o OrElse(q.correct, Str(<<>>)).s

\* questionHash: SHA-256, taken as injective, of
\*   (q.question || "") + answers.map(a => a.text || "").join("|") + (q.correct || "")
\* The digest is modelled by the string it is computed from.
questionHash(q) ==
  OrElse(q.question, Str(<<>>)).s
    \o Join([i \in 1..Len(q.answers.items) |->
               OrElse(q.answers.items[i].text, Str(<<>>)).s], <<"|">>)
    \o OrElse(q.correct, Str(<<>>)).s

\* a => a.id && a.text && typeof a.text === "string", over the elements in
\* order as Array.prototype.every does: "throw" when a null element is reached
\* before an element that fails the test
RECURSIVE EveryAnswer(_)
EveryAnswer(items) ==
  IF Len(items) = 0 THEN "true"
  ELSE LET a == items[1] IN
       IF ~a.obj THEN "throw"
       ELSE IF ~(Truthy(a.id) /\ Truthy(a.text) /\ a.text.t = "string") THEN "false"
       ELSE EveryAnswer(Tail(items))

\* validateQuestion: "true", "false" (any falsy result) or "throw" (a TypeError)
validateQuestion(q) ==
  IF ~q.obj THEN "false"
  ELSE IF q.question.t # "string" THEN "false"
  ELSE IF Len(Trim(q.question.s)) = 0 THEN "false"
  ELSE IF ~q.answers.array THEN "false"
  ELSE IF Len(q.answers.items) # 4 THEN "false"
  ELSE IF EveryAnswer(q.answers.items) # "true" THEN EveryAnswer(q.answers.items)
  ELSE IF q.correct.t # "string" THEN "false"
  ELSE IF ToUpperCase(q.correct.s) \in {<<"A">>, <<"B">>, <<"C">>, <<"D">>}
  THEN "true" ELSE "false"

\* upsertQuestion throws a TypeError when an answer id is not a string
\* (a.id.toUpperCase is not a function); q has passed validateQuestion
UpsertThrows(q) ==
  \E i \in 1..Len(q.answers.items) : q.answers.items[i].id.t # "string"

Medium == Str(<<"m", "e", "d", "i", "u", "m">>)

\* The document upsertQuestion builds from a record that passed validateQuestion
UpsertDoc(q) ==
  [question |-> Trim(q.question.s),
   answers |-> [i \in 1..Len(q.answers.items) |->
                  [id |-> ToUpperCase(q.answers.items[i].id.s),
                   text |-> Trim(q.answers.items[i].text.s)]],
   correct |-> ToUpperCase(q.correct.s),
   difficulty |-> OrElse(q.difficulty, Medium),
   category |-> OrElse(q.category, Str(<<>>)),
   source |-> OrElse(q.source, Str(<<>>)),
   tags |-> IF q.tags.array THEN q.tags.items ELSE <<>>,
   hash |-> questionHash(q)]

\* The metadata fields of a stored document
Metadata(d) ==
  [difficulty |-> d.difficulty, category |-> d.category, source |-> d.source,
   tags |-> d.tags]

\* ------------------------------------------------------------- ledger inputs
\* Wallet strings a client may send: empty, two spellings of one address, and
\* a mixed-case spelling of another address whose checksum is wrong.
WalletInputs ==
  { <<>>, <<"a", "b">>, <<"A", "B">>, <<"c", "D">> }

AllLower(s) == \A i \in 1..Len(s) : s[i] \notin DOMAIN LowerOf
AllUpper(s) == \A i \in 1..Len(s) : s[i] \in DOMAIN LowerOf

\* ethers.isAddress on the non-empty wallet strings above: all-lower-case and
\* all-upper-case hex are addresses, mixed case only with a valid checksum
\* (none of the inputs has one).
IsAddress(w) == Len(w) > 0 /\ (AllLower(w) \/ AllUpper(w))

\* payout values of POST /api/game/complete, amount values of POST /api/withdraw
PayoutInputs == {-1, 2}
AmountInputs == {-1, 0, 1, 2}

\* error.code of an exception thrown by sending a transaction; the read-only
\* calls (decimals, balanceOf) and the wait fail with other codes
ErrorCodes == {"INSUFFICIENT_FUNDS", "ACTION_REJECTED", "OTHER"}

\* ------------------------------------------------------------- upload inputs
StdAnswers(texts) ==
  Arr([i \in 1..Len(texts) |-> Answer(Str(<<<<"A">>, <<"B">>, <<"C">>, <<"D">>>>[i]), Str(texts[i]))])

Record(question, answers, correct, difficulty, tags) ==
  [obj |-> TRUE, question |-> question, answers |-> answers, correct |-> correct,
   difficulty |-> difficulty, category |-> Undefined, source |-> Undefined,
   tags |-> tags]

Easy == Str(<<"e", "a", "s", "y">>)
Hard == Str(<<"h", "a", "r", "d">>)

\* A valid record (its correct id in lower case)
RecBase ==
  Record(Str(<<"q">>), StdAnswers(<<<<"w">>, <<"x">>, <<"y">>, <<"z">>>>),
         Str(<<"b">>), Easy, NoArr)
\* The same question, answers and correct with other metadata
RecMeta ==
  Record(Str(<<"q">>), StdAnswers(<<<<"w">>, <<"x">>, <<"y">>, <<"z">>>>),
         Str(<<"b">>), Hard, Arr(<<<<"t">>>>))
\* Another valid record
RecOther ==
  Record(Str(<<"r">>), StdAnswers(<<<<"w">>, <<"x">>, <<"y">>, <<"z">>>>),
         Str(<<"A">>), Undefined, NoArr)
\* An invalid record: correct is none of A..D
RecBadCorrect ==
  Record(Str(<<"q">>), StdAnswers(<<<<"w">>, <<"x">>, <<"y">>, <<"z">>>>),
         Str(<<"e">>), Easy, NoArr)

\* A record with a null element in answers
RecNullAnswer ==
  Record(Str(<<"q">>),
         Arr(<<Answer(Str(<<"A">>), Str(<<"w">>)), NullAnswer,
               Answer(Str(<<"C">>), Str(<<"y">>)), Answer(Str(<<"D">>), Str(<<"z">>))>>),
         Str(<<"b">>), Easy, NoArr)
\* A record whose first answer id is the number 1
RecNumId ==
  Record(Str(<<"q">>),
         Arr(<<Answer(Num(1), Str(<<"w">>)), Answer(Str(<<"B">>), Str(<<"x">>)),
               Answer(Str(<<"C">>), Str(<<"y">>)), Answer(Str(<<"D">>), Str(<<"z">>))>>),
         Str(<<"b">>), Easy, NoArr)

\* An element of the payload that is null
RecNull ==
  [obj |-> FALSE, question |-> Undefined, answers |-> NoArr, correct |-> Undefined,
   difficulty |-> Undefined, category |-> Undefined, source |-> Undefined,
   tags |-> NoArr]

InputRecords == {RecBase, RecMeta, RecOther, RecBadCorrect}

\* Records of all shapes: well-formed, and malformed in each of the ways above
ShapeRecords == {RecBase, RecBadCorrect, RecNull, RecNullAnswer, RecNumId}

RECURSIVE SeqsUpTo(_, _)
SeqsUpTo(S, n) ==
  IF n = 0 THEN {<<>>}
  ELSE LET shorter == SeqsUpTo(S, n - 1) IN
       shorter \cup {Append(b, x) : b \in {c \in shorter : Len(c) = n - 1}, x \in S}

\* Two valid records with different question and first answer texts:
\* "q" + "aw|x|y|z" + "A" and "qa" + "w|x|y|z" + "A"
RecSplitLeft ==
  Record(Str(<<"q">>), StdAnswers(<<<<"a", "w">>, <<"x">>, <<"y">>, <<"z">>>>),
         Str(<<"A">>), Undefined, NoArr)
RecSplitRight ==
  Record(Str(<<"q", "a">>), StdAnswers(<<<<"w">>, <<"x">>, <<"y">>, <<"z">>>>),
         Str(<<"A">>), Undefined, NoArr)
\* Two valid records whose answer texts hold the separator at different places
RecPipeLeft ==
  Record(Str(<<"q">>), StdAnswers(<<<<"w", "|", "x">>, <<"y">>, <<"z">>, <<"v">>>>),
         Str(<<"A">>), Undefined, NoArr)
RecPipeRight ==
  Record(Str(<<"q">>), StdAnswers(<<<<"w">>, <<"x", "|", "y">>, <<"z">>, <<"v">>>>),
         Str(<<"A">>), Undefined, NoArr)
\* RecBase with other answer ids, with a category and a source, with another
\* correct id, with another last answer
RecIds ==
  [RecBase EXCEPT !.answers =
     Arr([i \in 1..4 |-> [RecBase.answers.items[i] EXCEPT
                            !.id = Str(<<<<"d">>, <<"c">>, <<"b">>, <<"a">>>>[i])]])]
RecCategory ==
  [RecBase EXCEPT !.category = Str(<<"c">>), !.source = Str(<<"s">>)]
RecCorrect == [RecBase EXCEPT !.correct = Str(<<"c">>)]
RecLastAnswer ==
  [RecBase EXCEPT !.answers =
     StdAnswers(<<<<"w">>, <<"x">>, <<"y">>, <<"v">>>>)]

\* RecBase with its correct id in upper case, with white space before its
\* question text, with a first answer text of one space, and with answer ids
\* a, b, c, e next to a correct id d
RecUpper == [RecBase EXCEPT !.correct = Str(<<"B">>)]
RecPadded == [RecBase EXCEPT !.question = Str(<<" ", "q">>)]
RecBlankAnswer ==
  [RecBase EXCEPT !.answers =
     StdAnswers(<<<<" ">>, <<"x">>, <<"y">>, <<"z">>>>)]
RecOddIds ==
  [RecBase EXCEPT !.correct = Str(<<"d">>), !.answers =
     Arr([i \in 1..4 |-> [RecBase.answers.items[i] EXCEPT
                            !.id = Str(<<<<"a">>, <<"b">>, <<"c">>, <<"e">>>>[i])]])]

\* Records that validateQuestion accepts and upsertQuestion normalises
FormRecords == {RecBase, RecUpper, RecPadded, RecBlankAnswer, RecOddIds}

\* Records questionHash is called on
HashRecords ==
  {RecBase, RecMeta, RecOther, RecBadCorrect, RecSplitLeft, RecSplitRight,
   RecPipeLeft, RecPipeRight, RecIds, RecCategory, RecCorrect, RecLastAnswer}

\* Request bodies of POST /api/questions/upload: arrays of records, and a body
\* that is no array
Payloads == {NoArr} \cup {Arr(b) : b \in SeqsUpTo(InputRecords, MaxRecords)}

\* Bodies made of the two records that differ in question and answer text
CollisionPayloads ==
  {Arr(b) : b \in SeqsUpTo({RecSplitLeft, RecSplitRight}, MaxRecords)}

FormPayloads == {Arr(b) : b \in SeqsUpTo(FormRecords, MaxRecords)}

ShapePayloads == {NoArr} \cup {Arr(b) : b \in SeqsUpTo(ShapeRecords, MaxRecords)}

UploadIds == 1..MaxUploads

\* -------------------------------------------------------------- read inputs
QueryIds == 1..MaxQueries

\* .limit(100) of the leaderboard query
LeaderboardLimit == 100

Entry(w, winnings, games) == [wallet |-> w, winnings |-> winnings, games |-> games]

\* A ledger with one entry more than the limit, winnings growing with the
\* position
BigLedger ==
  [i \in 1..(LeaderboardLimit + 1) |-> Entry([j \in 1..i |-> "f"], i, 1)]

\* Ledgers a read request may find: empty, in and out of order, with equal
\* winnings, with an entry of no winnings, and the big one
QueryLedgers ==
  { <<>>,
    <<Entry(<<"a", "b">>, 2, 1)>>,
    <<Entry(<<"a", "b">>, 1, 1), Entry(<<"c", "d">>, 2, 3)>>,
    <<Entry(<<"a", "b">>, 1, 1), Entry(<<"c", "d">>, 1, 2), Entry(<<"e">>, 2, 1)>>,
    <<Entry(<<"a", "b">>, 0, 1), Entry(<<"c", "d">>, 3, 1)>>,
    BigLedger }

\* Question stores a read request may find, written by earlier uploads
QueryStores ==
  { <<>>,
    <<[doc |-> UpsertDoc(RecBase), by |-> <<0, 1>>]>>,
    <<[doc |-> UpsertDoc(RecBase), by |-> <<0, 1>>],
      [doc |-> UpsertDoc(RecOther), by |-> <<0, 2>>]>> }

\* req.params.wallet of GET /api/profile/:wallet
ProfileInputs == { <<"a", "b">>, <<"A", "B">>, <<"e", "e">> }

\* req.query.count of GET /api/questions/random: absent, or a string
CountInputs == { <<>>, <<"0">>, <<"2">>, <<"x">>, <<"6", "0">> }

DigitOf == [c \in {"0", "1", "2", "5", "6"} |->
              CASE c = "0" -> 0 [] c = "1" -> 1 [] c = "2" -> 2 [] c = "5" -> 5
                [] OTHER -> 6]

RECURSIVE Digits(_, _)
Digits(s, acc) ==
  IF Len(s) = 0 \/ s[1] \notin DOMAIN DigitOf THEN acc
  ELSE Digits(Tail(s), 10 * acc + DigitOf[s[1]])

\* parseInt of a string: the number its leading digits spell, or NaN
ParseInt(s) ==
  IF Len(s) = 0 \/ s[1] \notin DOMAIN DigitOf THEN [nan |-> TRUE, n |-> 0]
  ELSE [nan |-> FALSE, n |-> Digits(s, 0)]

\* Math.min(50, Math.max(1, parseInt(req.query.count || "15"))): NaN stays NaN
ClampCount(c) ==
  LET parsed == ParseInt(IF c = <<>> THEN <<"1", "5">> ELSE c) IN
  IF parsed.nan THEN parsed
  ELSE [nan |-> FALSE,
        n |-> IF parsed.n < 1 THEN 1 ELSE IF parsed.n > 50 THEN 50 ELSE parsed.n]

\* ------------------------------------------------------------- faucet inputs
\* req.ip of a faucet request
IpInputs == {"ip1", "ip2"}
\* req.body.address: missing, an address, a string that is no address
AddressInputs == { <<>>, <<"a", "b">>, <<"c", "D">> }
\* Seconds returned by faucetContract.getCooldown
CooldownInputs == {0, 60}

ClaimIds == 1..MaxClaims

\* faucetLimiter: windowMs (in hours) and max
WindowHours == 4
LimiterMaxTwo == 1 + 1
LimiterMax == 1

Backends == {"mongo", "supabase"}

ReqIds == 1..MaxReqs

\* ------------------------------------------------------------------- state
VARIABLES
  backend,      \* which edition of server.js is deployed
  opening,      \* the Leaderboard collection as found at start-up (never changes)
  simulated,    \* PRIVATE_KEY is unset or the placeholder (localhost mode)
  leaderboard,  \* the Leaderboard collection / table: a sequence of documents
  req,          \* the ledger requests: inputs, position, observations, response
  overlap,      \* history: two ledger requests have been in flight at once
  questions,    \* the Question collection / table: a sequence of documents
  up,           \* the upload requests: payload, loop position, counts, response
  last,         \* history: per hash, the last valid record the loop processed
  pair,         \* the two records questionHash was last called on
  digest,       \* the two hashes it returned
  fc,           \* the faucet claim requests
  limiter,      \* the store of faucetLimiter: per key, hits and reset time
  now,          \* the clock, in hours
  qry           \* the read requests (leaderboard, profile, random questions)

vars ==
  <<backend, simulated, opening, leaderboard, req, overlap, questions, up, last,
    pair, digest, fc, limiter, now, qry>>

ledgerVars == <<leaderboard, req, overlap>>
ingestVars == <<questions, up, last>>
hashVars == <<pair, digest>>
faucetVars == <<fc, limiter, now>>
queryVars == <<qry>>

NoPlayer == [read |-> FALSE, found |-> FALSE, winnings |-> 0]
NoResp == [status |-> 0, body |-> ""]

IdleReq ==
  [kind |-> "none", wallet |-> <<>>, amount |-> 0, pc |-> "idle",
   seen |-> NoPlayer, chain |-> 0, tx |-> "none", debited |-> FALSE,
   resp |-> NoResp]

NoResults == [inserted |-> 0, duplicates |-> 0, invalid |-> 0]

\* An upload request: body, index of the record the loop is at, the counts, the
\* response; and as history the outcome of each record processed so far,
\* whether the body was an array, whether it repeats the body of the request
\* before it, whether one of its store calls failed, whether no other upload
\* request was in flight with it, and the number of its writes to the store
IdleUp ==
  [pc |-> "idle", batch |-> <<>>, i |-> 1, results |-> NoResults,
   outcome |-> <<>>, resp |-> NoResp,
   array |-> FALSE, again |-> FALSE, fault |-> FALSE, alone |-> FALSE,
   writes |-> 0]

\* A faucet request: key and body, position, response; and as history its
\* arrival time, whether the limiter admitted it, the cooldown it read (-1:
\* none) and what became of its claim transaction
IdleClaim ==
  [pc |-> "idle", ip |-> "", address |-> <<>>, at |-> 0, admitted |-> FALSE,
   cooldown |-> -1, tx |-> "none", resp |-> NoResp]

\* The limiter's record of a key that has no hits in a running window
NoHits == [hits |-> 0, resetTime |-> 0]

\* A read request: route and input, position, response (status, kind of body,
\* rows or number of mock rows); and as history whether a store call of it
\* failed and the positions in the store of the rows it returns
NoRows == [status |-> 0, body |-> "", rows |-> <<>>, n |-> 0]

IdleQuery ==
  [kind |-> "none", pc |-> "idle", wallet |-> <<>>, count |-> [nan |-> FALSE, n |-> 0],
   fault |-> FALSE, order |-> <<>>, resp |-> NoRows]

\* The ledger the server finds when it starts: empty, or one entry left by
\* earlier game completions
OpeningLedgers ==
  { <<>>, <<[wallet |-> <<"a", "b">>, winnings |-> 2, games |-> 1]>> }

Init ==
  /\ backend \in Backends
  /\ simulated \in BOOLEAN
  /\ opening \in OpeningLedgers
  /\ leaderboard = opening
  /\ req = [r \in ReqIds |-> IdleReq]
  /\ overlap = FALSE
  /\ questions = <<>>
  /\ up = [u \in UploadIds |-> IdleUp]
  /\ last = <<>>
  /\ pair = <<>>
  /\ digest = <<>>
  /\ fc = [f \in ClaimIds |-> IdleClaim]
  /\ limiter = [k \in IpInputs |-> NoHits]
  /\ now = 0
  /\ qry = [q \in QueryIds |-> IdleQuery]

\* ------------------------------------------------------------ store helpers
\* Indexes of the documents matching { wallet: w }
Matches(w) == {i \in 1..Len(leaderboard) : leaderboard[i].wallet = w}

Min(S) == CHOOSE x \in S : \A y \in S : x <= y

\* Leaderboard.findOne({ wallet: w }): the first matching document, or null
FindOne(w) ==
  IF Matches(w) = {} THEN [read |-> TRUE, found |-> FALSE, winnings |-> 0]
  ELSE [read |-> TRUE, found |-> TRUE,
        winnings |-> leaderboard[Min(Matches(w))].winnings]

\* updateOne(filter, { $inc: { winnings: dw, games: dg } }) on the first match;
\* with no match (and no upsert) nothing is modified
IncFirst(w, dw, dg) ==
  IF Matches(w) = {} THEN leaderboard
  ELSE LET i == Min(Matches(w)) IN
       [leaderboard EXCEPT ![i].winnings = @ + dw, ![i].games = @ + dg]

InFlight(r) == req[r].pc \notin {"idle", "done"}

Respond(r, status, body) ==
  [req EXCEPT ![r].pc = "done", ![r].resp = [status |-> status, body |-> body]]

\* A request arrives: ids are handed out in arrival order
Arrives(r) ==
  /\ req[r].pc = "idle"
  /\ \A q \in ReqIds : q < r => req[q].pc # "idle"
  /\ overlap' = (overlap \/ \E q \in ReqIds : InFlight(q))


\* ----------------------------------------------------- POST /api/game/complete
\* Math.max(0, Number(payout || 0))
Win(payout) == IF payout > 0 THEN payout ELSE 0

\* The handler up to its await: the wallet check, the clamp, the store call issued
GameCompleteRequest(r, w, p) ==
  /\ Arrives(r)
  /\ req' = IF w = <<>>
            THEN Respond(r, 400, "wallet required")
            ELSE [req EXCEPT ![r].kind = "complete", ![r].wallet = w,
                             ![r].amount = Win(p), ![r].pc = "upsert"]
  /\ UNCHANGED <<ingestVars, backend, simulated, opening, hashVars, faucetVars, queryVars, leaderboard>>

\* MongoDB: updateOne(filter, {$inc}, {upsert: true}).  A matching document is
\* incremented atomically.  With no match the operation inserts; the wallet
\* index of LeaderboardSchema is not unique, so two upserts that both found no
\* match both insert (the insert is the separate step MongoInsert).
MongoUpsert(r) ==
  LET key == ToLowerCase(req[r].wallet) IN
  IF Matches(key) # {}
  THEN /\ leaderboard' = IncFirst(key, req[r].amount, 1)
       /\ req' = Respond(r, 200, "ok")
  ELSE /\ req' = [req EXCEPT ![r].pc = "insert"]
       /\ UNCHANGED leaderboard

\* Supabase: upsert({wallet, winnings: win, games: 1}, {onConflict: "wallet"}):
\* INSERT ... ON CONFLICT (wallet) DO UPDATE SET the given columns, atomically
SupabaseUpsert(r) ==
  LET key == ToLowerCase(req[r].wallet)
      row == [wallet |-> key, winnings |-> req[r].amount, games |-> 1]
  IN /\ leaderboard' = IF Matches(key) = {}
                       THEN Append(leaderboard, row)
                       ELSE [leaderboard EXCEPT ![Min(Matches(key))] = row]
     /\ req' = Respond(r, 200, "ok")

\* The awaited store call of the handler returns, or fails and the catch answers 500
GameCompleteStore(r) ==
  /\ req[r].pc = "upsert"
  /\ \/ /\ backend = "mongo"
        /\ MongoUpsert(r)
     \/ /\ backend = "supabase"
        /\ SupabaseUpsert(r)
     \/ /\ req' = Respond(r, 500, "store error")
        /\ UNCHANGED leaderboard
  /\ UNCHANGED <<ingestVars, backend, simulated, opening, hashVars, faucetVars, queryVars, overlap>>

\* The insert half of a MongoDB upsert that found no matching document
MongoInsert(r) ==
  /\ req[r].pc = "insert"
  /\ leaderboard' = Append(leaderboard,
        [wallet |-> ToLowerCase(req[r].wallet), winnings |-> req[r].amount,
         games |-> 1])
  /\ req' = Respond(r, 200, "ok")
  /\ UNCHANGED <<ingestVars, backend, simulated, opening, hashVars, faucetVars, queryVars, overlap>>

\* ---------------------------------------------------------- POST /api/withdraw
\* Variant of the balance check that lets an absent entry through
InsufficientFoundOnly(player, amount) == player.found /\ player.winnings < amount

\* !player || player.winnings < amount
Insufficient(player, amount) == ~player.found \/ player.winnings < amount

\* Variant of the receipt check that accepts every receipt
ReceiptAny(status) == status \in {0, 1}

\* receipt.status === 1
ReceiptOk(status) == status = 1

\* The catch block's choice of message
WithdrawErrorMessage(code) ==
  IF code = "INSUFFICIENT_FUNDS" THEN "Insufficient gas fees"
  ELSE IF code = "ACTION_REJECTED" THEN "Transaction rejected by user"
  ELSE "Withdrawal failed"

\* The catch block: status 500 with the chosen message (tx: history, what
\* became of the transfer)
WithdrawCatch(r, code, tx) ==
  [req EXCEPT ![r].pc = "done", ![r].tx = tx,
              ![r].resp = [status |-> 500, body |-> WithdrawErrorMessage(code)]]

\* The handler up to its first await: input validation, findOne issued.  The
\* Supabase edition defines no withdraw route: the request falls to the 404 handler.
WithdrawRequest(r, w, a) ==
  /\ Arrives(r)
  /\ req' = IF backend = "supabase"
            THEN Respond(r, 404, "not found")
            ELSE IF w = <<>> \/ a = 0
            THEN Respond(r, 400, "Wallet and amount required")
            ELSE IF ~IsAddress(w)
            THEN Respond(r, 400, "Invalid wallet address")
            ELSE [req EXCEPT ![r].kind = "withdraw", ![r].wallet = w,
                             ![r].amount = a, ![r].pc = "findOne"]
  /\ UNCHANGED <<ingestVars, backend, simulated, opening, hashVars, faucetVars, queryVars, leaderboard>>

\* findOne returns and the balance check runs (chain: history, the number of
\* chain calls the request has issued), or findOne fails
WithdrawFindOne(r) ==
  /\ req[r].pc = "findOne"
  /\ \/ LET player == FindOne(ToLowerCase(req[r].wallet))
            q == [req EXCEPT ![r].seen = player]
        IN req' = IF Insufficient(player, req[r].amount)
                  THEN [q EXCEPT ![r].pc = "done",
                                 ![r].resp = [status |-> 400, body |-> "Insufficient winnings"]]
                  ELSE IF simulated
                  THEN [q EXCEPT ![r].pc = "simUpdate"]
                  ELSE [q EXCEPT ![r].pc = "decimals", ![r].chain = 1]
     \/ req' = WithdrawCatch(r, "OTHER", "none")
  /\ UNCHANGED <<ingestVars, backend, simulated, opening, hashVars, faucetVars, queryVars, leaderboard, overlap>>

\* Variant of the debit that counts a game as well
DebitCountingGame(r) == IncFirst(ToLowerCase(req[r].wallet), -req[r].amount, 1)

\* The debit: updateOne({wallet}, {$inc: {winnings: -amount}}), with no condition
\* on the balance
Debit(r) == IncFirst(ToLowerCase(req[r].wallet), -req[r].amount, 0)

\* Simulated mode: the debit returns and success is answered, or the store fails
WithdrawSimUpdate(r) ==
  /\ req[r].pc = "simUpdate"
  /\ \/ /\ leaderboard' = Debit(r)
        /\ req' = [req EXCEPT ![r].pc = "done", ![r].debited = TRUE,
                     ![r].resp = [status |-> 200, body |-> "withdrawn (simulated)"]]
     \/ /\ req' = WithdrawCatch(r, "OTHER", "none")
        /\ UNCHANGED leaderboard
  /\ UNCHANGED <<ingestVars, backend, simulated, opening, hashVars, faucetVars, queryVars, overlap>>

\* tokenContract.decimals() returns (parseUnits then balanceOf issued) or throws
WithdrawDecimals(r) ==
  /\ req[r].pc = "decimals"
  /\ \/ req' = [req EXCEPT ![r].pc = "balanceOf", ![r].chain = 2]
     \/ req' = WithdrawCatch(r, "OTHER", "none")
  /\ UNCHANGED <<ingestVars, backend, simulated, opening, hashVars, faucetVars, queryVars, leaderboard, overlap>>

\* balanceOf returns: too small a contract balance answers 400 (never the case
\* for a negative amount), otherwise transfer is issued; or balanceOf throws
WithdrawBalanceOf(r) ==
  /\ req[r].pc = "balanceOf"
  /\ \/ req' = [req EXCEPT ![r].pc = "transfer", ![r].chain = 3]
     \/ /\ req[r].amount > 0
        /\ req' = Respond(r, 400, "Insufficient contract balance")
     \/ req' = WithdrawCatch(r, "OTHER", "none")
  /\ UNCHANGED <<ingestVars, backend, simulated, opening, hashVars, faucetVars, queryVars, leaderboard, overlap>>

\* Variant of the transfer step that debits the ledger at submission
WithdrawTransferDebitsFirst(r) ==
  /\ req[r].pc = "transfer"
  /\ \/ /\ req[r].amount > 0
        /\ leaderboard' = Debit(r)
        /\ req' = [req EXCEPT ![r].pc = "wait", ![r].tx = "submitted",
                             ![r].chain = 4, ![r].debited = TRUE]
     \/ /\ \E code \in ErrorCodes :
             /\ req[r].amount < 0 => code = "OTHER"
             /\ req' = WithdrawCatch(r, code, "threw")
        /\ UNCHANGED leaderboard
  /\ UNCHANGED <<ingestVars, backend, simulated, opening, hashVars, faucetVars, queryVars, overlap>>

\* transfer() returns the submitted transaction, or throws (always for a
\* negative amount, which does not encode as uint256)
WithdrawTransfer(r) ==
  /\ req[r].pc = "transfer"
  /\ \/ /\ req[r].amount > 0
        /\ req' = [req EXCEPT ![r].pc = "wait", ![r].tx = "submitted", ![r].chain = 4]
     \/ \E code \in ErrorCodes :
          /\ req[r].amount < 0 => code = "OTHER"
          /\ req' = WithdrawCatch(r, code, "threw")
  /\ UNCHANGED <<ingestVars, backend, simulated, opening, hashVars, faucetVars, queryVars, leaderboard, overlap>>

\* Variant of the wait step that sends the transfer again when the
\* transaction was mined with a status other than 1 or the wait threw
WithdrawWaitRetry(r) ==
  /\ req[r].pc = "wait"
  /\ \/ \E status \in {0, 1} :
          LET mined == IF status = 1 THEN "confirmed" ELSE "reverted" IN
          req' = IF ReceiptOk(status)
                 THEN [req EXCEPT ![r].pc = "updateOne", ![r].tx = mined]
                 ELSE [req EXCEPT ![r].pc = "transfer", ![r].tx = mined]
     \/ req' = [req EXCEPT ![r].pc = "transfer", ![r].tx = "lost"]
  /\ UNCHANGED <<ingestVars, backend, simulated, opening, hashVars, faucetVars, queryVars, leaderboard, overlap>>

\* tx.wait() returns a receipt: status 1 issues the debit, any other status
\* throws "Transaction failed"; or the wait itself throws (timeout, revert)
WithdrawWait(r) ==
  /\ req[r].pc = "wait"
  /\ \/ \E status \in {0, 1} :
          LET mined == IF status = 1 THEN "confirmed" ELSE "reverted" IN
          req' = IF ReceiptOk(status)
                 THEN [req EXCEPT ![r].pc = "updateOne", ![r].tx = mined]
                 ELSE WithdrawCatch(r, "OTHER", mined)
     \/ req' = WithdrawCatch(r, "OTHER", "lost")
  /\ UNCHANGED <<ingestVars, backend, simulated, opening, hashVars, faucetVars, queryVars, leaderboard, overlap>>

\* The debit after confirmation returns and success is answered, or the store
\* fails and the catch answers 500
WithdrawUpdateOne(r) ==
  /\ req[r].pc = "updateOne"
  /\ \/ /\ leaderboard' = Debit(r)
        /\ req' = [req EXCEPT ![r].pc = "done", ![r].debited = TRUE,
                     ![r].resp = [status |-> 200, body |-> "withdrawn"]]
     \/ /\ req' = WithdrawCatch(r, "OTHER", req[r].tx)
        /\ UNCHANGED leaderboard
  /\ UNCHANGED <<ingestVars, backend, simulated, opening, hashVars, faucetVars, queryVars, overlap>>


\* ------------------------------------------------- POST /api/questions/upload
\* Indexes of the stored documents with hash h
HashMatches(h) == {i \in 1..Len(questions) : questions[i].doc.hash = h}

Counted(st, what) ==
  [st EXCEPT !.outcome = Append(@, what), !.i = @ + 1,
             !.results = IF what = "invalid" THEN [@ EXCEPT !.invalid = @ + 1]
                         ELSE IF what = "duplicate" THEN [@ EXCEPT !.duplicates = @ + 1]
                         ELSE [@ EXCEPT !.inserted = @ + 1]]

Answered(st, status, body) ==
  [st EXCEPT !.pc = "done", !.resp = [status |-> status, body |-> body]]

\* Variant of the loop that skips an invalid record without counting it
RECURSIVE LoopSkipInvalid(_)
LoopSkipInvalid(st) ==
  IF st.i > Len(st.batch) THEN Answered(st, 200, "results")
  ELSE LET v == validateQuestion(st.batch[st.i]) IN
       IF v = "throw" THEN Answered(st, 500, "server error")
       ELSE IF v = "false" THEN LoopSkipInvalid([st EXCEPT !.i = @ + 1])
       ELSE [st EXCEPT !.pc = "findOne"]

\* The for loop from the record at st.i up to its next await: invalid records
\* are counted and skipped, a valid record has its findOne issued, the end of
\* the payload answers the counts, a TypeError of validateQuestion answers 500
RECURSIVE Loop(_)
Loop(st) ==
  IF st.i > Len(st.batch) THEN Answered(st, 200, "results")
  ELSE LET v == validateQuestion(st.batch[st.i]) IN
       IF v = "throw" THEN Answered(st, 500, "server error")
       ELSE IF v = "false" THEN Loop(Counted(st, "invalid"))
       ELSE [st EXCEPT !.pc = "findOne"]

\* Variant of the step after the pre-check read in which a record whose hash
\* exists is counted a duplicate and is written all the same (no continue)
AfterPreCheckNoContinue(st, exists) ==
  LET counted == IF exists
                 THEN [st EXCEPT !.outcome = Append(@, "duplicate"),
                                 !.results = [@ EXCEPT !.duplicates = @ + 1]]
                 ELSE st
  IN IF UpsertThrows(st.batch[st.i]) THEN Answered(counted, 500, "server error")
     ELSE [counted EXCEPT !.pc = "upsert"]

\* After the pre-check read: a record whose hash exists is counted a duplicate
\* and skipped (continue); otherwise upsertQuestion builds its document and
\* issues the write, or throws
AfterPreCheck(st, exists) ==
  IF exists THEN Loop(Counted(st, "duplicate"))
  ELSE IF UpsertThrows(st.batch[st.i]) THEN Answered(st, 500, "server error")
  ELSE [st EXCEPT !.pc = "upsert"]

\* The record an upload request is at
Current(u) == up[u].batch[up[u].i]

\* History: the record at up[u].i is the last one processed for its hash
Processed(u) ==
  LET h == questionHash(Current(u)) IN
  [x \in DOMAIN last \cup {h} |-> IF x = h THEN Current(u) ELSE last[x]]

RECURSIVE RecordsUpTo(_)
RecordsUpTo(u) == IF u = 0 THEN 0 ELSE Len(up[u].batch) + RecordsUpTo(u - 1)

UploadArrives(u) ==
  /\ up[u].pc = "idle"
  /\ \A v \in UploadIds : v < u => up[v].pc # "idle"

UploadInFlight(u) == up[u].pc \notin {"idle", "done"}

\* Request u starts as st: it is alone when no other upload is in flight, and
\* the uploads in flight are no longer alone
Started(u, st) ==
  [v \in UploadIds |->
     IF v = u THEN [st EXCEPT !.alone = \A w \in UploadIds : ~UploadInFlight(w)]
     ELSE IF UploadInFlight(v) THEN [up[v] EXCEPT !.alone = FALSE]
     ELSE up[v]]

\* Variant of the array check that takes a body that is no array for an empty
\* array
HandleBodyUnchecked(st, payload) ==
  Loop([st EXCEPT !.batch = payload.items, !.array = payload.array])

\* if (!Array.isArray(payload)) return 400; otherwise the loop starts
HandleBody(st, payload) ==
  IF ~payload.array
  THEN Answered([st EXCEPT !.array = FALSE], 400, "expected an array")
  ELSE Loop([st EXCEPT !.batch = payload.items, !.array = TRUE])

\* The handler up to its first await
UploadRequest(u, payload) ==
  /\ UploadArrives(u)
  /\ RecordsUpTo(MaxUploads) + Len(payload.items) <= MaxRecords
  /\ up' = Started(u, HandleBody(up[u], payload))
  /\ UNCHANGED <<ledgerVars, backend, simulated, opening, hashVars, faucetVars, queryVars, questions, last>>

\* The handler up to its first await, for a request that sends the array the
\* request before it sent, after that one was answered
UploadAgain(u) ==
  /\ UploadArrives(u)
  /\ u > 1
  /\ up[u - 1].pc = "done"
  /\ up[u - 1].array
  /\ up' = Started(u, HandleBody([up[u] EXCEPT !.again = TRUE], Arr(up[u - 1].batch)))
  /\ UNCHANGED <<ledgerVars, backend, simulated, opening, hashVars, faucetVars, queryVars, questions, last>>

\* The pre-check read returns.  MongoDB: findOne resolves, or rejects and the
\* catch answers 500.  Supabase: the error of the select is not looked at, a
\* failed read leaves data null, which reads as "not found".
UploadFindOne(u) ==
  /\ up[u].pc = "findOne"
  /\ \/ LET exists == HashMatches(questionHash(Current(u))) # {} IN
        /\ up' = [up EXCEPT ![u] = AfterPreCheck(@, exists)]
        /\ last' = IF exists THEN Processed(u) ELSE last
     \/ /\ backend = "mongo"
        /\ up' = [up EXCEPT ![u] = Answered([@ EXCEPT !.fault = TRUE], 500, "server error")]
        /\ UNCHANGED last
     \/ /\ backend = "supabase"
        /\ up' = [up EXCEPT ![u] = AfterPreCheck([@ EXCEPT !.fault = TRUE], FALSE)]
        /\ UNCHANGED last
  /\ UNCHANGED <<ledgerVars, backend, simulated, opening, hashVars, faucetVars, queryVars, questions>>

\* The document written for the record at up[u].i (by: history, the request and
\* index of the record that wrote it)
WrittenDoc(u) == [doc |-> UpsertDoc(Current(u)), by |-> <<u, up[u].i>>]

\* History: one more write of the request has reached the store
Wrote(st) == [st EXCEPT !.writes = @ + 1]

\* The write of upsertQuestion returns.
\* MongoDB: updateOne({hash}, {$set: doc}, {upsert: true}): a document with the
\*   hash is set atomically; with none the operation inserts, and as
\*   QuestionSchema declares no unique index on hash, two upserts that both
\*   found none both insert (the insert is the separate step UploadInsert).
\* Supabase: upsert(doc, {onConflict: "hash"}), atomic on the unique hash.
\* Either write may fail: upsertQuestion throws and the catch answers 500.
UploadUpsert(u) ==
  /\ up[u].pc = "upsert"
  /\ LET m == HashMatches(questionHash(Current(u))) IN
     \/ /\ m # {}
        /\ questions' = [questions EXCEPT ![Min(m)] = WrittenDoc(u)]
        /\ up' = [up EXCEPT ![u] = Loop(Counted(Wrote(@), "inserted"))]
        /\ last' = Processed(u)
     \/ /\ m = {}
        /\ backend = "supabase"
        /\ questions' = Append(questions, WrittenDoc(u))
        /\ up' = [up EXCEPT ![u] = Loop(Counted(Wrote(@), "inserted"))]
        /\ last' = Processed(u)
     \/ /\ m = {}
        /\ backend = "mongo"
        /\ up' = [up EXCEPT ![u].pc = "insert"]
        /\ UNCHANGED <<questions, last>>
     \/ /\ up' = [up EXCEPT ![u] = Answered([@ EXCEPT !.fault = TRUE], 500, "server error")]
        /\ UNCHANGED <<questions, last>>
  /\ UNCHANGED <<ledgerVars, backend, simulated, opening, hashVars, faucetVars, queryVars>>

\* The insert half of a MongoDB upsert that found no document with the hash
UploadInsert(u) ==
  /\ up[u].pc = "insert"
  /\ questions' = Append(questions, WrittenDoc(u))
  /\ up' = [up EXCEPT ![u] = Loop(Counted(Wrote(@), "inserted"))]
  /\ last' = Processed(u)
  /\ UNCHANGED <<ledgerVars, backend, simulated, opening, hashVars, faucetVars, queryVars>>

\* ------------------------------------------------------------------- faucet
\* The limiter's store counts a hit of key k: a key with no running window
\* starts one that ends windowMs later
Increment(k) ==
  IF limiter[k].hits = 0 \/ limiter[k].resetTime <= now
  THEN [hits |-> 1, resetTime |-> now + WindowHours]
  ELSE [limiter[k] EXCEPT !.hits = @ + 1]

FaucetArrives(f) ==
  /\ fc[f].pc = "idle"
  /\ \A g \in ClaimIds : g < f => fc[g].pc # "idle"

FaucetAnswered(st, status, body) ==
  [st EXCEPT !.pc = "done", !.resp = [status |-> status, body |-> body]]

\* The catch block of the faucet handler: a mock success response
FaucetCatch(st) == FaucetAnswered(st, 200, "success")

\* The handler's first segment once the limiter has let the request through
FaucetHandle(st) ==
  IF simulated THEN FaucetAnswered(st, 200, "success")
  ELSE IF st.address = <<>> THEN FaucetAnswered(st, 400, "Address is required")
  ELSE IF ~IsAddress(st.address) THEN FaucetAnswered(st, 400, "Invalid Ethereum address")
  ELSE [st EXCEPT !.pc = "getCooldown"]

\* The request passes faucetLimiter, which answers 429 when the key's hits
\* exceed max, and then enters the handler up to its first await
FaucetRequest(f, ip, address) ==
  /\ FaucetArrives(f)
  /\ LET hit == Increment(ip)
         st == [fc[f] EXCEPT !.ip = ip, !.address = address, !.at = now]
     IN /\ limiter' = [limiter EXCEPT ![ip] = hit]
        /\ fc' = [fc EXCEPT ![f] =
                    IF hit.hits > LimiterMax
                    THEN FaucetAnswered(st, 429, "Rate limit exceeded")
                    ELSE FaucetHandle([st EXCEPT !.admitted = TRUE])]
  /\ UNCHANGED <<backend, simulated, opening, ledgerVars, ingestVars, hashVars,
                 queryVars, now>>

\* getCooldown returns or throws
FaucetGetCooldown(f) ==
  /\ fc[f].pc = "getCooldown"
  /\ \/ \E c \in CooldownInputs :
          fc' = [fc EXCEPT ![f] =
                   IF c > 0
                   THEN FaucetAnswered([@ EXCEPT !.cooldown = c], 400, "Cooldown active")
                   ELSE [@ EXCEPT !.cooldown = c, !.pc = "claim"]]
     \/ fc' = [fc EXCEPT ![f] = FaucetCatch(@)]
  /\ UNCHANGED <<backend, simulated, opening, ledgerVars, ingestVars, hashVars,
                 queryVars, limiter, now>>

\* faucetContract.claim returns the submitted transaction or throws
FaucetClaim(f) ==
  /\ fc[f].pc = "claim"
  /\ \/ fc' = [fc EXCEPT ![f] = [@ EXCEPT !.tx = "submitted", !.pc = "wait"]]
     \/ fc' = [fc EXCEPT ![f] = FaucetCatch([@ EXCEPT !.tx = "threw"])]
  /\ UNCHANGED <<backend, simulated, opening, ledgerVars, ingestVars, hashVars,
                 queryVars, limiter, now>>

\* tx.wait returns the receipt of the mined transaction, or throws (the
\* transaction reverted or the wait failed)
FaucetWait(f) ==
  /\ fc[f].pc = "wait"
  /\ \/ fc' = [fc EXCEPT ![f] = FaucetAnswered([@ EXCEPT !.tx = "confirmed"], 200, "success")]
     \/ \E fate \in {"reverted", "lost"} :
          fc' = [fc EXCEPT ![f] = FaucetCatch([@ EXCEPT !.tx = fate])]
  /\ UNCHANGED <<backend, simulated, opening, ledgerVars, ingestVars, hashVars,
                 queryVars, limiter, now>>

\* An hour passes
Tick ==
  /\ now < MaxClock
  /\ now' = now + 1
  /\ UNCHANGED <<backend, simulated, opening, ledgerVars, ingestVars, hashVars,
                 queryVars, fc, limiter>>

\* ------------------------------------------------------------ read requests
QueryArrives(q) ==
  /\ qry[q].pc = "idle"
  /\ \A p \in QueryIds : p < q => qry[p].pc # "idle"

QueryAnswered(st, status, body, rows, n) ==
  [st EXCEPT !.pc = "done",
             !.resp = [status |-> status, body |-> body, rows |-> rows, n |-> n]]

\* Variant of the leaderboard query without the sort: the first n documents in
\* the order of the collection
NaturalOrders(S, n) ==
  {[i \in 1..(IF Cardinality(S) < n THEN Cardinality(S) ELSE n) |-> i]}

\* find().sort({ winnings: -1 }).limit(n): the positions of the first n
\* documents in an order of non-increasing winnings (documents of equal
\* winnings come in any order).  A document's position in the order is the
\* number of documents of greater winnings plus its place among the documents
\* tied with it.
SortedOrders(S, n) ==
  LET m == IF Cardinality(S) < n THEN Cardinality(S) ELSE n
      above == [i \in S |->
                  Cardinality({j \in S : leaderboard[j].winnings > leaderboard[i].winnings})]
      tied == [i \in S |-> {j \in S : leaderboard[j].winnings = leaderboard[i].winnings}]
      sizes == {Cardinality(tied[i]) : i \in S}
      most == IF S = {} THEN 0 ELSE CHOOSE c \in sizes : \A d \in sizes : d <= c
      places == {t \in [S -> 1..most] :
                   \A i \in S : /\ t[i] <= Cardinality(tied[i])
                                 /\ \A j \in tied[i] : t[j] = t[i] => j = i}
  IN {[k \in 1..m |-> CHOOSE i \in S : above[i] + t[i] = k] : t \in places}

\* (p, i) => ({ rank: i + 1, wallet, wins: p.games || 0, payout: p.winnings || 0 })
Player(p, i) ==
  [rank |-> i, wallet |-> p.wallet, wins |-> p.games, payout |-> p.winnings]

\* The players the catch block of the leaderboard handler answers
MockPlayers ==
  <<[rank |-> 1, wallet |-> <<"m", "1">>, wins |-> 10, payout |-> 500000],
    [rank |-> 2, wallet |-> <<"m", "2">>, wins |-> 8, payout |-> 250000],
    [rank |-> 3, wallet |-> <<"m", "3">>, wins |-> 5, payout |-> 100000]>>

\* GET /api/leaderboard up to its await
LeaderboardRequest(q) ==
  /\ QueryArrives(q)
  /\ qry' = [qry EXCEPT ![q] = [@ EXCEPT !.kind = "leaderboard", !.pc = "find"]]
  /\ UNCHANGED <<backend, simulated, opening, ledgerVars, ingestVars, hashVars,
                 faucetVars>>

\* The leaderboard query returns its documents, or fails and the catch block
\* answers the mock players
LeaderboardFind(q) ==
  /\ qry[q].pc = "find"
  /\ \/ \E order \in SortedOrders(1..Len(leaderboard), LeaderboardLimit) :
          qry' = [qry EXCEPT ![q] =
                    QueryAnswered([@ EXCEPT !.order = order], 200, "players",
                                  [i \in 1..Len(order) |-> Player(leaderboard[order[i]], i)], 0)]
     \/ qry' = [qry EXCEPT ![q] =
                  QueryAnswered([@ EXCEPT !.fault = TRUE], 200, "players", MockPlayers, 0)]
  /\ UNCHANGED <<backend, simulated, opening, ledgerVars, ingestVars, hashVars,
                 faucetVars>>

Tier(winnings) ==
  IF winnings >= 500000 THEN "diamond"
  ELSE IF winnings >= 100000 THEN "gold"
  ELSE IF winnings >= 10000 THEN "silver"
  ELSE "bronze"

\* GET /api/profile/:wallet up to its await
ProfileRequest(q, w) ==
  /\ QueryArrives(q)
  /\ LET st == [qry[q] EXCEPT !.kind = "profile", !.wallet = ToLowerCase(w)] IN
     qry' = [qry EXCEPT ![q] =
               IF st.wallet = <<>>
               THEN QueryAnswered(st, 400, "wallet required", <<>>, 0)
               ELSE [st EXCEPT !.pc = "findOne"]]
  /\ UNCHANGED <<backend, simulated, opening, ledgerVars, ingestVars, hashVars,
                 faucetVars>>

\* The read of the wallet's entry returns (p?.games || 0, p?.winnings || 0),
\* or fails and the catch block answers 500
ProfileFindOne(q) ==
  /\ qry[q].pc = "findOne"
  /\ \/ LET m == Matches(qry[q].wallet)
             games == IF m = {} THEN 0 ELSE leaderboard[Min(m)].games
             winnings == FindOne(qry[q].wallet).winnings
         IN qry' = [qry EXCEPT ![q] =
                      QueryAnswered(@, 200, "profile",
                                    <<[wallet |-> qry[q].wallet, games |-> games,
                                       winnings |-> winnings, tier |-> Tier(winnings)]>>, 0)]
     \/ qry' = [qry EXCEPT ![q] =
                  QueryAnswered([@ EXCEPT !.fault = TRUE], 500, "error", <<>>, 0)]
  /\ UNCHANGED <<backend, simulated, opening, ledgerVars, ingestVars, hashVars,
                 faucetVars>>

\* GET /api/questions/random up to its first await
RandomRequest(q, c) ==
  /\ QueryArrives(q)
  /\ qry' = [qry EXCEPT ![q] =
               [@ EXCEPT !.kind = "random", !.count = ClampCount(c),
                         !.pc = IF backend = "mongo" THEN "count" ELSE "select"]]
  /\ UNCHANGED <<backend, simulated, opening, ledgerVars, ingestVars, hashVars,
                 faucetVars>>

\* The mock questions the MongoDB edition answers from its catch block
RandomCatch(st) == QueryAnswered([st EXCEPT !.fault = TRUE], 200, "mock questions", <<>>, 15)

\* MongoDB: countDocuments returns; with fewer documents than asked for the
\* handler answers that many mock questions
RandomCount(q) ==
  /\ qry[q].pc = "count"
  /\ \/ qry' = [qry EXCEPT ![q] =
                  IF ~@.count.nan /\ Len(questions) < @.count.n
                  THEN QueryAnswered(@, 200, "mock questions", <<>>, @.count.n)
                  ELSE [@ EXCEPT !.pc = "sample"]]
     \/ qry' = [qry EXCEPT ![q] = RandomCatch(@)]
  /\ UNCHANGED <<backend, simulated, opening, ledgerVars, ingestVars, hashVars,
                 faucetVars>>

\* The sequences of k different positions of the question store
RECURSIVE Picks(_, _)
Picks(S, k) ==
  IF k = 0 \/ S = {} THEN {<<>>}
  ELSE UNION {{<<i>> \o o : o \in Picks(S \ {i}, k - 1)} : i \in S}

\* MongoDB: aggregate([{ $sample: { size: count } }]) returns count documents,
\* or fails (always for a count that is NaN); the documents are answered as
\* { question, answers, correct }
RandomSample(q) ==
  /\ qry[q].pc = "sample"
  /\ \/ /\ ~qry[q].count.nan
        /\ \E order \in Picks(1..Len(questions), qry[q].count.n) :
             qry' = [qry EXCEPT ![q] =
                       QueryAnswered([@ EXCEPT !.order = order], 200, "questions",
                                     [i \in 1..Len(order) |->
                                        [question |-> questions[order[i]].doc.question,
                                         answers |-> questions[order[i]].doc.answers,
                                         correct |-> questions[order[i]].doc.correct]],
                                     Len(order))]
     \/ qry' = [qry EXCEPT ![q] = RandomCatch(@)]
  /\ UNCHANGED <<backend, simulated, opening, ledgerVars, ingestVars, hashVars,
                 faucetVars>>

\* Supabase: select("*").limit(count) returns up to count rows, or an error
\* (always for a count that is NaN) that the handler throws and answers 500;
\* with no row the handler answers count mock questions
RandomSelect(q) ==
  /\ qry[q].pc = "select"
  /\ \/ /\ ~qry[q].count.nan
        /\ \E order \in Picks(1..Len(questions), qry[q].count.n) :
             qry' = [qry EXCEPT ![q] =
                       IF order = <<>>
                       THEN QueryAnswered(@, 200, "mock questions", <<>>, @.count.n)
                       ELSE QueryAnswered([@ EXCEPT !.order = order], 200, "questions",
                                          [i \in 1..Len(order) |-> questions[order[i]].doc],
                                          Len(order))]
     \/ qry' = [qry EXCEPT ![q] =
                  QueryAnswered([@ EXCEPT !.fault = TRUE], 500, "error", <<>>, 0)]
  /\ UNCHANGED <<backend, simulated, opening, ledgerVars, ingestVars, hashVars,
                 faucetVars>>

\* ------------------------------------------------------------- questionHash
\* questionHash is called on two records
HashCall(q1, q2) ==
  /\ pair' = <<q1, q2>>
  /\ digest' = <<questionHash(q1), questionHash(q2)>>
  /\ UNCHANGED <<backend, simulated, opening, ledgerVars, ingestVars,
                 faucetVars, queryVars>>

\* ===================================================================== claims
\* ------------------------------------------------------- ledger: definitions
Withdrawals == {r \in ReqIds : req[r].kind = "withdraw"}
Completions == {r \in ReqIds : req[r].kind = "complete"}

\* The ledger key of a request: its wallet in lower case
Key(r) == ToLowerCase(req[r].wallet)
Keys == {ToLowerCase(w) : w \in WalletInputs \ {<<>>}}

Quiescent == \A r \in ReqIds : ~InFlight(r)

RECURSIVE SumAmounts(_)
SumAmounts(S) ==
  IF S = {} THEN 0
  ELSE LET r == CHOOSE x \in S : TRUE IN req[r].amount + SumAmounts(S \ {r})

RECURSIVE SumField(_, _)
SumField(I, winnings) ==
  IF I = {} THEN 0
  ELSE LET i == CHOOSE x \in I : TRUE IN
       (IF winnings THEN leaderboard[i].winnings ELSE leaderboard[i].games)
         + SumField(I \ {i}, winnings)

\* Game completions of key k that were answered { ok: true }
Landed(k) ==
  {r \in Completions : Key(r) = k /\ req[r].pc = "done" /\ req[r].resp.status = 200}
\* Winnings and games of k in the opening ledger
OpeningOf(k, winnings) ==
  IF \E i \in 1..Len(opening) : opening[i].wallet = k
  THEN LET d == opening[CHOOSE i \in 1..Len(opening) : opening[i].wallet = k]
       IN IF winnings THEN d.winnings ELSE d.games
  ELSE 0
\* Winnings credited to k, amount of k's confirmed transfers, k's applied debits
Credited(k) == OpeningOf(k, TRUE) + SumAmounts(Landed(k))
\* Games played by k
Played(k) == OpeningOf(k, FALSE) + Cardinality(Landed(k))
Transferred(k) == SumAmounts({r \in Withdrawals : Key(r) = k /\ req[r].tx = "confirmed"})
Debited(k) == SumAmounts({r \in Withdrawals : Key(r) = k /\ req[r].debited})
\* Winnings and games held by the ledger for k
Balance(k) == SumField(Matches(k), TRUE)
Games(k) == SumField(Matches(k), FALSE)

FailedTx == {"threw", "reverted", "lost"}

\* C1 (as stated): on every path of withdraw, a request's debit is applied only
\* after that request's transfer was submitted and confirmed with status 1.
C1_DebitOnlyAfterConfirmedTransfer ==
  \A r \in ReqIds : req[r].debited => req[r].tx = "confirmed"

\* C1 (amended): with a signing key configured (production path) a request's
\* debit is applied only after that request's transfer was confirmed with
\* status 1; without a key (simulated path) the debit is applied with no
\* transfer at all.
C1_DebitAfterConfirmationInProduction ==
  \A r \in ReqIds :
    /\ (~simulated /\ req[r].debited) => req[r].tx = "confirmed"
    /\ simulated => req[r].tx = "none" /\ req[r].chain = 0

C1_Witness ==
  \E r \in ReqIds : ~simulated /\ req[r].debited /\ req[r].tx = "confirmed"

\* C2: for no participant does the sum of the confirmed transfers exceed the
\* winnings credited to them, whatever the interleaving.
C2_NoOverWithdrawal ==
  \A k \in Keys : Transferred(k) <= Credited(k)

\* C3: every ledger entry has winnings >= 0 in every reachable state.
C3_WinningsNonNegative ==
  \A i \in 1..Len(leaderboard) : leaderboard[i].winnings >= 0

\* C4: a withdraw whose transfer threw, timed out or was mined with a status
\* other than 1 has applied no debit and was answered with an error.
C4_FailedTransferLeavesLedger ==
  \A r \in ReqIds :
    req[r].tx \in FailedTx =>
      /\ ~req[r].debited
      /\ req[r].pc = "done"
      /\ req[r].resp.status = 500

C4_Witness ==
  \E r \in ReqIds :
    /\ req[r].tx = "reverted"
    /\ Balance(Key(r)) >= req[r].amount

\* C5: a withdraw that passed input validation and whose balance read found no
\* entry, or winnings below the amount, is answered "Insufficient winnings",
\* has issued no chain call and has applied no debit.
C5_InsufficientRejected ==
  \A r \in Withdrawals :
    (req[r].seen.read /\ (~req[r].seen.found \/ req[r].seen.winnings < req[r].amount)) =>
      /\ req[r].pc = "done"
      /\ req[r].resp = [status |-> 400, body |-> "Insufficient winnings"]
      /\ req[r].chain = 0
      /\ req[r].tx = "none"
      /\ ~req[r].debited

\* C5 (reached): a withdraw that found the wallet's entry holding less than the
\* amount has been answered
C5_Witness ==
  \E r \in Withdrawals :
    /\ req[r].seen.read /\ req[r].seen.found
    /\ req[r].seen.winnings < req[r].amount
    /\ req[r].pc = "done"

\* C6: a withdraw answered with the failure error has no confirmed transfer and
\* no debit; a withdraw whose transfer was confirmed ends debited and answered
\* with success.
C6_FailureMeansUnconfirmed ==
  \A r \in Withdrawals :
    req[r].pc = "done" =>
      /\ req[r].resp.status = 500 => (req[r].tx # "confirmed" /\ ~req[r].debited)
      /\ req[r].tx = "confirmed" => (req[r].debited /\ req[r].resp.status = 200)

\* C7: after a sequence of game completions (one at a time, no withdrawal),
\* each key that was credited has exactly one entry, under the lower-cased
\* wallet, holding the sum of the clamped payouts and the number of completions
\* (on top of what the ledger held for the key at start-up).
C7_CompletionsAccumulate ==
  (Quiescent /\ ~overlap /\ Withdrawals = {}) =>
    /\ \A i \in 1..Len(leaderboard) :
         leaderboard[i].wallet = ToLowerCase(leaderboard[i].wallet)
    /\ \A k \in Keys :
         Landed(k) # {} =>
           /\ Cardinality(Matches(k)) = 1
           /\ Balance(k) = Credited(k)
           /\ Games(k) = Played(k)

\* C8: no ledger update is lost: once all requests have been answered, the
\* winnings held for a key are its initial winnings plus its credits minus its
\* applied debits, and its games grew by the number of its completions.
C8_NoLostUpdate ==
  Quiescent =>
    \A k \in Keys :
      /\ Balance(k) = Credited(k) - Debited(k)
      /\ Games(k) = Played(k)

\* C24: a withdraw request calls the token transfer at most once: a request
\* enters the transfer call only if it has not called it before, whatever
\* became of the call (returned, threw, reverted, timed out).
C24_TransferAtMostOnce ==
  [][\A r \in ReqIds :
       (req[r].pc # "transfer" /\ req'[r].pc = "transfer") =>
         (req[r].chain < 3 /\ req[r].tx = "none")]_vars

C24_Witness ==
  \E r \in Withdrawals :
    req[r].tx \in {"threw", "reverted", "lost"} /\ req[r].pc = "done" /\ req[r].chain >= 3

\* The phase of a withdraw request that passed the input checks: Checked up to
\* the call of the transfer, Submitted while the transfer or its confirmation
\* is awaited, Confirmed from the receipt of status 1 on and when answered
\* with success, Failed when answered 500, Rejected when answered 400
Phase(q) ==
  IF q.kind # "withdraw" THEN "none"
  ELSE IF q.pc \in {"findOne", "simUpdate", "decimals", "balanceOf"} THEN "Checked"
  ELSE IF q.pc \in {"transfer", "wait"} THEN "Submitted"
  ELSE IF q.pc = "updateOne" THEN "Confirmed"
  ELSE IF q.resp.status = 200 THEN "Confirmed"
  ELSE IF q.resp.status = 400 THEN "Rejected"
  ELSE "Failed"

PhaseSteps ==
  { <<"none", "Checked">>, <<"Checked", "Submitted">>, <<"Submitted", "Confirmed">>,
    <<"Submitted", "Failed">>, <<"Checked", "Rejected">> }

\* C25: a withdraw request changes phase only along Checked -> Submitted ->
\* Confirmed, Checked -> Submitted -> Failed or Checked -> Rejected, and a
\* request that ends Rejected has not called the transfer.
C25_PhaseOrder ==
  [][\A r \in ReqIds :
       /\ Phase(req'[r]) # Phase(req[r]) => <<Phase(req[r]), Phase(req'[r])>> \in PhaseSteps
       /\ Phase(req'[r]) = "Rejected" => (req'[r].tx = "none" /\ req'[r].chain < 3)]_vars

\* C25 (the part that holds): every withdraw request that arrived is
\* eventually answered, and an answered request does not change again.
EventuallyAnswered ==
  /\ \A r \in ReqIds : (req[r].pc # "idle") ~> (req[r].pc = "done")
  /\ [][\A r \in ReqIds : req[r].pc = "done" => req'[r] = req[r]]_vars

\* C26: no step of a withdraw request increases the winnings held for a
\* wallet, whatever amount passed the input checks.
C26_WithdrawNeverIncreases ==
  [][\A r \in ReqIds :
       (req[r].kind = "withdraw" /\ req'[r] # req[r]) =>
         \A i \in 1..Len(leaderboard) :
           /\ i <= Len(leaderboard')
           /\ leaderboard'[i].winnings <= leaderboard[i].winnings]_vars

\* C29: a step of a withdraw request changes at most the winnings of a ledger
\* entry of the request's lower-cased wallet: it creates and removes no entry,
\* changes no wallet and no games count, no winnings of another wallet, and
\* leaves the question store as it is.
C29_WithdrawFrame ==
  [][\A r \in ReqIds :
       (req'[r].kind = "withdraw" /\ req'[r] # req[r]) =>
         /\ Len(leaderboard') = Len(leaderboard)
         /\ \A i \in 1..Len(leaderboard) :
              /\ leaderboard'[i].wallet = leaderboard[i].wallet
              /\ leaderboard'[i].games = leaderboard[i].games
              /\ leaderboard'[i].winnings # leaderboard[i].winnings =>
                   leaderboard[i].wallet = ToLowerCase(req[r].wallet)
         /\ questions' = questions]_vars

C29_Witness ==
  \E r \in Withdrawals :
    /\ req[r].debited /\ req[r].wallet # Key(r)
    /\ \E i \in 1..Len(leaderboard) : leaderboard[i].wallet # Key(r)

\* ----------------------------------------------------------- question store
\* Positions of the records of upload u that were counted as duplicates
DuplicatesOf(u) ==
  {k \in 1..Len(up[u].outcome) : up[u].outcome[k] = "duplicate"}

\* C9: the question store holds at most one record per content hash.
C9_OneRecordPerHash ==
  \A i, j \in 1..Len(questions) :
    questions[i].doc.hash = questions[j].doc.hash => i = j

Identity(q) ==
  <<q.question, [i \in 1..Len(q.answers.items) |-> q.answers.items[i].text],
    q.correct>>

\* A batch of one or more valid records that differ pairwise in an identity
\* field
DistinctValid(batch) ==
  /\ Len(batch) >= 1
  /\ \A i \in 1..Len(batch) :
       validateQuestion(batch[i]) = "true" /\ ~UpsertThrows(batch[i])
  /\ \A i, j \in 1..Len(batch) :
       Identity(batch[i]) = Identity(batch[j]) => i = j

Counts(i, d, v) == [inserted |-> i, duplicates |-> d, invalid |-> v]

\* The first upload went into the empty store with no other request in flight
\* and no store failure, and nothing but its repetition has arrived since (with
\* no store failure either)
FirstIngestDone ==
  /\ up[1].pc = "done" /\ up[1].array /\ up[1].alone /\ ~up[1].fault
  /\ DistinctValid(up[1].batch)
  /\ \A v \in UploadIds : v > 2 => up[v].pc = "idle"
  /\ up[2].pc # "idle" => (up[2].again /\ ~up[2].fault)

SecondIngestDone == FirstIngestDone /\ up[2].again /\ up[2].pc = "done"

\* C11: a batch of k distinct valid records ingested into a store holding none
\* of them reports inserted = k, duplicates = 0, invalid = 0; the identical
\* batch ingested again with no concurrent request reports inserted = 0,
\* duplicates = k, invalid = 0 and leaves the stored records and hashes as the
\* first ingestion wrote them.
C11_ReingestIdempotent ==
  LET k == Len(up[1].batch) IN
  /\ FirstIngestDone =>
       /\ up[1].resp = [status |-> 200, body |-> "results"]
       /\ up[1].results = Counts(k, 0, 0)
       /\ Len(questions) = k
       /\ \A i \in 1..k :
            questions[i] = [doc |-> UpsertDoc(up[1].batch[i]), by |-> <<1, i>>]
  /\ SecondIngestDone =>
       /\ up[2].resp = [status |-> 200, body |-> "results"]
       /\ up[2].results = Counts(0, k, 0)

C11_Witness == SecondIngestDone /\ Len(up[2].batch) = 2

\* C12: two records that differ in question text, in an answer text (position
\* by position) or in correct are given different hashes.
C12_HashInjective ==
  (pair # <<>> /\ Identity(pair[1]) # Identity(pair[2])) => digest[1] # digest[2]

\* C13: two records that agree on question text, answer texts in order and
\* correct are given the same hash, whatever their difficulty, category,
\* source, tags and answer ids.
C13_HashOfContentOnly ==
  (pair # <<>> /\ Identity(pair[1]) = Identity(pair[2])) => digest[1] = digest[2]

C13_Witness ==
  /\ pair = <<RecBase, RecIds>>
  /\ digest[1] = digest[2]

\* C14: an upload whose body is an array, whatever the shape of its elements,
\* is answered with counts unless a store call failed, and every element is
\* counted.
C14_MalformedOnlyCountsInvalid ==
  \A u \in UploadIds :
    (up[u].pc = "done" /\ up[u].array /\ ~up[u].fault) =>
      /\ up[u].resp = [status |-> 200, body |-> "results"]
      /\ up[u].results.inserted + up[u].results.duplicates + up[u].results.invalid
           = Len(up[u].batch)

\* C15: an upload whose body is no array is answered 400 "expected an array"
\* at once: no record is counted or processed and no stored document comes
\* from it.
C15_NonArrayRejected ==
  \A u \in UploadIds :
    (up[u].pc # "idle" /\ ~up[u].array) =>
      /\ up[u].pc = "done"
      /\ up[u].resp = [status |-> 400, body |-> "expected an array"]
      /\ up[u].results = NoResults
      /\ up[u].outcome = <<>>
      /\ \A i \in 1..Len(questions) : questions[i].by[1] # u

C15_Witness ==
  \E u \in UploadIds :
    up[u].pc = "done" /\ ~up[u].array /\ Len(questions) > 0

\* C21: when two upload requests have both counted a record of the same hash
\* as inserted (both pre-check reads found nothing, no store call failed), the
\* store holds exactly one record with that hash.
C21_RaceStoresOne ==
  \A u, v \in UploadIds :
    \A i \in 1..Len(up[u].outcome), j \in 1..Len(up[v].outcome) :
      ( /\ u # v
        /\ ~up[u].fault /\ ~up[v].fault
        /\ up[u].outcome[i] = "inserted" /\ up[v].outcome[j] = "inserted"
        /\ questionHash(up[u].batch[i]) = questionHash(up[v].batch[j]) ) =>
        Cardinality(HashMatches(questionHash(up[u].batch[i]))) = 1

\* C23: every stored record is well formed: a non-empty question text, exactly
\* 4 answers each with a non-empty id and a non-empty text, and a correct value
\* that is the id of one of its answers.
C23_StoredWellFormed ==
  \A i \in 1..Len(questions) :
    LET d == questions[i].doc IN
    /\ d.question # <<>>
    /\ Len(d.answers) = 4
    /\ \A a \in 1..Len(d.answers) : d.answers[a].id # <<>> /\ d.answers[a].text # <<>>
    /\ \E a \in 1..Len(d.answers) : d.answers[a].id = d.correct

\* The stored fields of a document, as a record questionHash can be applied to
Stored(d) ==
  [question |-> Str(d.question),
   answers |-> Arr([a \in 1..Len(d.answers) |->
                      Answer(Str(d.answers[a].id), Str(d.answers[a].text))]),
   correct |-> Str(d.correct)]

\* C27: no two stored records have the same stored question text, answer texts
\* in order and correct, and the hash field of every stored record is
\* questionHash of its stored fields.
C27_NoDuplicateContent ==
  /\ \A i, j \in 1..Len(questions) :
       Identity(Stored(questions[i].doc)) = Identity(Stored(questions[j].doc)) => i = j
  /\ \A i \in 1..Len(questions) :
       questions[i].doc.hash = questionHash(Stored(questions[i].doc))

\* C28: an upload answered with counts has counted every record of its body
\* once (inserted + duplicates + invalid is the length of the body), has
\* counted as invalid the records validateQuestion does not accept, and has
\* written to the store as many times as it counts inserted.
C28_CountsAddUp ==
  \A u \in UploadIds :
    (up[u].pc = "done" /\ up[u].resp = [status |-> 200, body |-> "results"]) =>
      /\ up[u].results.inserted + up[u].results.duplicates + up[u].results.invalid
           = Len(up[u].batch)
      /\ up[u].results.invalid
           = Cardinality({k \in 1..Len(up[u].batch) :
                            validateQuestion(up[u].batch[k]) # "true"})
      /\ up[u].writes = up[u].results.inserted

C28_Witness ==
  \E u \in UploadIds :
    /\ up[u].pc = "done" /\ up[u].resp.status = 200
    /\ up[u].results.inserted = 1 /\ up[u].results.invalid = 1
    /\ up[u].writes = 1

\* ------------------------------------------------------------------- faucet
\* C16: a faucet claim is answered with success only if its claim transaction
\* was submitted and confirmed; a chain call that fails or throws ends in an
\* error response.  Stated for the server with a signing key configured.
C16_SuccessMeansConfirmed ==
  ~simulated =>
    \A f \in ClaimIds :
      (fc[f].pc = "done" /\ fc[f].resp.status = 200) => fc[f].tx = "confirmed"

\* C17: a faucet claim is answered with success only when the limiter admitted
\* it and the chain's cooldown for the address was read as 0; when the cooldown
\* read is greater than 0 no claim transaction is submitted and the answer is
\* an error.  Stated for the server with a signing key configured.
C17_DualCooldown ==
  ~simulated =>
    \A f \in ClaimIds :
      /\ (fc[f].pc = "done" /\ fc[f].resp.status = 200) =>
           (fc[f].admitted /\ fc[f].cooldown = 0)
      /\ fc[f].cooldown > 0 =>
           (fc[f].tx = "none" /\ fc[f].pc = "done" /\ fc[f].resp.status = 400)

\* The requests of g's key that arrived before g and were admitted
PriorAdmitted(g) ==
  {f \in ClaimIds : f < g /\ fc[f].ip = fc[g].ip /\ fc[f].admitted}

\* C18: a request is admitted exactly when every earlier admitted request of
\* its key arrived at least 4 hours before it (denied requests and requests
\* of other keys count for nothing); a request that is not admitted is
\* answered 429.
C18_OneAdmissionPerWindow ==
  \A g \in ClaimIds :
    fc[g].pc # "idle" =>
      /\ fc[g].admitted <=>
           \A f \in PriorAdmitted(g) : fc[g].at >= fc[f].at + WindowHours
      /\ ~fc[g].admitted =>
           (fc[g].pc = "done" /\ fc[g].resp = [status |-> 429, body |-> "Rate limit exceeded"])

C18_Witness ==
  \E f, g, h \in ClaimIds :
    /\ f < g /\ g < h
    /\ fc[h].pc # "idle"
    /\ fc[f].ip = fc[g].ip /\ fc[g].ip = fc[h].ip
    /\ fc[f].admitted /\ ~fc[g].admitted /\ fc[h].admitted
    /\ fc[g].at = fc[f].at + WindowHours - 1
    /\ fc[h].at = fc[f].at + WindowHours

\* ------------------------------------------------------------ read requests
\* C19: a read request one of whose store calls failed is answered with an
\* error, never with a success response built from substitute data.
C19_FailClosed ==
  \A q \in QueryIds :
    (qry[q].pc = "done" /\ qry[q].fault) => qry[q].resp.status >= 400

\* C20: a leaderboard request whose store read succeeded answers at most 100
\* players, each made from a ledger entry of its own, in order of
\* non-increasing winnings, ranked 1, 2, ... by position.
C20_LeaderboardRanked ==
  \A q \in QueryIds :
    (qry[q].kind = "leaderboard" /\ qry[q].pc = "done" /\ ~qry[q].fault) =>
      LET players == qry[q].resp.rows
          order == qry[q].order
      IN /\ qry[q].resp.status = 200
         /\ Len(players) <= 100
         /\ Len(order) = Len(players)
         /\ \A i \in 1..Len(players) :
              /\ order[i] \in 1..Len(leaderboard)
              /\ players[i].wallet = leaderboard[order[i]].wallet
              /\ players[i].payout = leaderboard[order[i]].winnings
              /\ players[i].wins = leaderboard[order[i]].games
              /\ players[i].rank = i
         /\ \A i, j \in 1..Len(players) :
              /\ order[i] = order[j] => i = j
              /\ i < j => players[i].payout >= players[j].payout

C20_Witness ==
  \E q \in QueryIds :
    /\ qry[q].kind = "leaderboard" /\ qry[q].pc = "done" /\ ~qry[q].fault
    /\ Len(leaderboard) > 100
    /\ Len(qry[q].resp.rows) = 100

\* C22: a random-questions request whose store calls succeeded answers at most
\* count questions, count being within 1..50, each of them a record held in
\* the question store (so only the stored ones when the store holds fewer).
C22_RandomFromStore ==
  \A q \in QueryIds :
    (qry[q].kind = "random" /\ qry[q].pc = "done" /\ ~qry[q].fault) =>
      LET rows == qry[q].resp.rows
          order == qry[q].order
      IN /\ qry[q].resp.status = 200
         /\ qry[q].resp.body = "questions"
         /\ qry[q].count.n \in 1..50
         /\ Len(rows) <= qry[q].count.n
         /\ Len(order) = Len(rows)
         /\ \A i \in 1..Len(rows) :
              /\ order[i] \in 1..Len(questions)
              /\ rows[i].question = questions[order[i]].doc.question
              /\ rows[i].answers = questions[order[i]].doc.answers
              /\ rows[i].correct = questions[order[i]].doc.correct

\* ------------------------------------------------------------ specification
\* The ledger endpoints
Next ==
  \E r \in ReqIds :
    \/ \E w \in WalletInputs, p \in PayoutInputs : GameCompleteRequest(r, w, p)
    \/ GameCompleteStore(r)
    \/ MongoInsert(r)
    \/ \E w \in WalletInputs, a \in AmountInputs : WithdrawRequest(r, w, a)
    \/ WithdrawFindOne(r)
    \/ WithdrawSimUpdate(r)
    \/ WithdrawDecimals(r)
    \/ WithdrawBalanceOf(r)
    \/ WithdrawTransfer(r)
    \/ WithdrawWait(r)
    \/ WithdrawUpdateOne(r)

Spec == Init /\ [][Next]_vars

\* The ledger endpoints when every store and chain call eventually returns or
\* throws
FairSpec == Spec /\ WF_vars(Next)

\* Ledgers the withdraw requests may find: empty, and holding the entries of
\* two wallets
WithdrawLedgers ==
  { <<>>, <<Entry(<<"a", "b">>, 2, 1), Entry(<<"c", "d">>, 1, 3)>> }

WithdrawInit ==
  /\ backend \in Backends
  /\ simulated \in BOOLEAN
  /\ leaderboard \in WithdrawLedgers
  /\ opening = leaderboard
  /\ req = [r \in ReqIds |-> IdleReq]
  /\ overlap = FALSE
  /\ questions = <<>>
  /\ up = [u \in UploadIds |-> IdleUp]
  /\ last = <<>>
  /\ pair = <<>>
  /\ digest = <<>>
  /\ fc = [f \in ClaimIds |-> IdleClaim]
  /\ limiter = [k \in IpInputs |-> NoHits]
  /\ now = 0
  /\ qry = [q \in QueryIds |-> IdleQuery]

\* The withdraw endpoint alone, over a ledger written by earlier game
\* completions
WithdrawNext ==
  \E r \in ReqIds :
    \/ \E w \in WalletInputs, a \in AmountInputs : WithdrawRequest(r, w, a)
    \/ WithdrawFindOne(r)
    \/ WithdrawSimUpdate(r)
    \/ WithdrawDecimals(r)
    \/ WithdrawBalanceOf(r)
    \/ WithdrawTransfer(r)
    \/ WithdrawWait(r)
    \/ WithdrawUpdateOne(r)

WithdrawSpec == WithdrawInit /\ [][WithdrawNext]_vars

\* The upload endpoint
IngestNext ==
  \E u \in UploadIds :
    \/ \E payload \in Payloads : UploadRequest(u, payload)
    \/ UploadAgain(u)
    \/ UploadFindOne(u)
    \/ UploadUpsert(u)
    \/ UploadInsert(u)

\* The upload handlers read neither the ledger nor the withdrawal mode
IngestInit == Init /\ opening = <<>> /\ ~simulated

IngestSpec == IngestInit /\ [][IngestNext]_vars

\* The upload endpoint, sent records of all shapes
ShapeNext ==
  \E u \in UploadIds :
    \/ \E payload \in ShapePayloads : UploadRequest(u, payload)
    \/ UploadFindOne(u)
    \/ UploadUpsert(u)
    \/ UploadInsert(u)

ShapeSpec == IngestInit /\ [][ShapeNext]_vars

\* The upload endpoint, sent the records that differ in question and answer
\* text, each body possibly sent again
CollisionNext ==
  \E u \in UploadIds :
    \/ \E payload \in CollisionPayloads : UploadRequest(u, payload)
    \/ UploadAgain(u)
    \/ UploadFindOne(u)
    \/ UploadUpsert(u)
    \/ UploadInsert(u)

CollisionSpec == IngestInit /\ [][CollisionNext]_vars

\* The upload endpoint, sent valid records that upsertQuestion normalises
FormNext ==
  \E u \in UploadIds :
    \/ \E payload \in FormPayloads : UploadRequest(u, payload)
    \/ UploadFindOne(u)
    \/ UploadUpsert(u)
    \/ UploadInsert(u)

FormSpec == IngestInit /\ [][FormNext]_vars

\* The faucet endpoint (MongoDB edition only) behind its rate limiter
FaucetNext ==
  \/ \E f \in ClaimIds :
       \/ \E ip \in IpInputs, address \in AddressInputs : FaucetRequest(f, ip, address)
       \/ FaucetGetCooldown(f)
       \/ FaucetClaim(f)
       \/ FaucetWait(f)
  \/ Tick

FaucetInit == Init /\ opening = <<>> /\ backend = "mongo"

FaucetSpec == FaucetInit /\ [][FaucetNext]_vars

\* The rate limiter in front of the faucet endpoint: requests without an
\* address, which the handler answers in its first segment
LimiterNext ==
  \/ \E f \in ClaimIds, ip \in IpInputs : FaucetRequest(f, ip, <<>>)
  \/ Tick

LimiterSpec == FaucetInit /\ [][LimiterNext]_vars

\* The read endpoints, over a ledger and a question store written earlier
QueryNext ==
  \E q \in QueryIds :
    \/ LeaderboardRequest(q)
    \/ LeaderboardFind(q)
    \/ \E w \in ProfileInputs : ProfileRequest(q, w)
    \/ ProfileFindOne(q)
    \/ \E c \in CountInputs : RandomRequest(q, c)
    \/ RandomCount(q)
    \/ RandomSample(q)
    \/ RandomSelect(q)

QueryInit ==
  /\ backend \in Backends
  /\ simulated = FALSE
  /\ leaderboard \in QueryLedgers
  /\ opening = leaderboard
  /\ questions \in QueryStores
  /\ req = [r \in ReqIds |-> IdleReq]
  /\ overlap = FALSE
  /\ up = [u \in UploadIds |-> IdleUp]
  /\ last = <<>>
  /\ pair = <<>>
  /\ digest = <<>>
  /\ fc = [f \in ClaimIds |-> IdleClaim]
  /\ limiter = [k \in IpInputs |-> NoHits]
  /\ now = 0
  /\ qry = [q \in QueryIds |-> IdleQuery]

QuerySpec == QueryInit /\ [][QueryNext]_vars

\* questionHash, called on any two of the records
HashNext == \E q1, q2 \in HashRecords : HashCall(q1, q2)

HashSpec == IngestInit /\ [][HashNext]_vars

=============================================================================
